---- MODULE Spec2Model ----
(***************************************************************************)
(* A model of the two engine behaviours the notebooks of this repository   *)
(* exercise and describe:                                                  *)
(*   - asynchronous execution (front-end thread, back-end queue and        *)
(*     threads, synchronization functions), chapter "Asynchronous          *)
(*     Programming in MXNet";                                              *)
(*   - automatic differentiation (attach_grad, record, backward, detach),  *)
(*     chapter "Automatic Differentiation";                                *)
(*   - parameters of a network (initialization, tied and constant          *)
(*     parameters, training steps), chapters "Parameter Management" and    *)
(*     "Blocks with Code".                                                 *)
(* The notebook cells are the programs; the engine steps are the actions.  *)
(***************************************************************************)
EXTENDS Integers, Sequences, FiniteSets, TLC

VARIABLES cell, pc, queue, running, done, bind, issued, value, read,
          acell, apc, env, recording, training, printed,
          pnet, pstage, pstore, pbwd, psteps

\* state of the asynchronous execution model
avars == <<cell, pc, queue, running, done, bind, issued, value, read>>

\* state of the autograd session
gvars == <<acell, apc, env, recording, training, printed>>

\* state of a network and its parameters
pvars == <<pnet, pstage, pstore, pbwd, psteps>>

vars == <<cell, pc, queue, running, done, bind, issued, value, read,
          acell, apc, env, recording, training, printed,
          pnet, pstage, pstore, pbwd, psteps>>

\* no network has been built
PIdle ==
    /\ pnet = "none"
    /\ pstage = "none"
    /\ pstore = << >>
    /\ pbwd = FALSE
    /\ psteps = 0

(***************************************************************************)
(* Bounds.                                                                 *)
(***************************************************************************)
\* iterations of the loops (range(1000), num_batches = 100 in the notebook)
NumIter == 3
\* threads of the back-end ("the back-end possesses its own threads")
NumThreads == 2

(***************************************************************************)
(* Front-end statements.                                                   *)
(***************************************************************************)
\* an ndarray operation: out = f(args)
\* the statement out = fn(args)
OpFn(out, fn, args) == [kind |-> "op", out |-> out, args |-> args, fn |-> fn]

\* a statement whose function the model does not look into (np.dot, nd.dot,
\* the layers of a network, ...)
Op(out, args) == OpFn(out, "f", args)

\* a synchronization function applied to the ndarray v
SyncOn(kind, v) == [kind |-> kind, out |-> v, args |-> {v}]

\* npx.waitall()
WaitAllStmt == [kind |-> "waitall", out |-> "", args |-> {}]

\* plain Python that never touches an ndarray: timer.start(), print('Done ...')
Py == [kind |-> "py", out |-> "", args |-> {}]

\* the position after the last statement of a cell
EndStmt == [kind |-> "end", out |-> "", args |-> {}]

\* wait_to_read, asnumpy, item and print of an ndarray wait for that ndarray
ArraySyncKinds == {"wait_to_read", "asnumpy", "item", "print"}

CellNames == {"abc", "timing", "wait_to_read", "waitall", "asnumpy", "item",
              "sync_loop", "async_loop", "train_sync", "train_async"}

\* one minibatch of the training loop up to the loss
TrainForward == << Op("X", {}), Op("y", {}),
                   Op("out", {"X", "params"}), Op("l", {"y", "out"}) >>

\* l.backward(); trainer.step(X.shape[0])
TrainUpdate == << Op("grads", {"l", "params"}), Op("params", {"grads", "params"}) >>

\* The cells of the chapter: body is the loop body (empty when the cell has
\* no loop), tail follows the loop.
Cell(c) ==
    CASE c = "abc" ->
           [body |-> << >>,
            tail |-> << OpFn("a", "ones", {}), OpFn("b", "ones", {}),
                        OpFn("c", "mul_plus2", {"a", "b"}),
                        SyncOn("print", "c") >>]
      [] c = "timing" ->
           [body |-> << >>,
            tail |-> << Py, Op("x", {}), Op("t", {"x"}), Op("y", {"t"}), Py,
                        SyncOn("print", "y"), Py >>]
      [] c = "wait_to_read" ->
           [body |-> << >>,
            tail |-> << Py, Op("y", {"x"}), SyncOn("wait_to_read", "y"), Py >>]
      [] c = "waitall" ->
           [body |-> << >>,
            tail |-> << Py, Op("y", {"x"}), Op("z", {"x"}), WaitAllStmt, Py >>]
      [] c = "asnumpy" ->
           [body |-> << >>,
            tail |-> << Py, Op("y", {"x"}), SyncOn("asnumpy", "y"), Py >>]
      [] c = "item" ->
           [body |-> << >>,
            tail |-> << Py, Op("y", {"x"}), Op("t", {"y"}), Op("s", {"t"}),
                        SyncOn("item", "s"), Py >>]
      [] c = "sync_loop" ->
           [body |-> << Op("y", {"x"}), SyncOn("wait_to_read", "y") >>,
            tail |-> << Py >>]
      [] c = "async_loop" ->
           [body |-> << Op("y", {"x"}) >>,
            tail |-> << WaitAllStmt, Py >>]
      [] c = "train_sync" ->
           [body |-> TrainForward \o << Op("s", {"l"}), SyncOn("item", "s") >>
                     \o TrainUpdate,
            tail |-> << WaitAllStmt, Py >>]
      [] c = "train_async" ->
           [body |-> TrainForward \o TrainUpdate,
            tail |-> << WaitAllStmt, Py >>]

Names == {"a", "b", "c", "x", "y", "z", "t", "s", "X", "l", "out", "grads",
          "params"}

\* the loop unrolled NumIter times, then the tail
Program(c) ==
    LET b == Cell(c).body
        n == Len(b)
    IN  [i \in 1..(NumIter * n) |-> b[((i - 1) % n) + 1]] \o Cell(c).tail

\* the loop iteration statement i belongs to; 0 outside the loop
IterOf(c, i) ==
    LET n == Len(Cell(c).body)
    IN  IF i <= NumIter * n THEN ((i - 1) \div n) + 1 ELSE 0

\* the statement the front-end thread is at
Stmt == IF pc \in DOMAIN Program(cell) THEN Program(cell)[pc] ELSE EndStmt

(***************************************************************************)
(* The back-end: a queue of tasks, threads that collect and execute them.  *)
(***************************************************************************)
\* tasks the back-end has not finished: queued or being executed
Pending == {queue[i] : i \in DOMAIN queue} \cup running

PendingIds == {t.id : t \in Pending}

\* a faulty test: the result counts as available once a thread has taken the task
ResultAvailableWhenCollected(v) ==
    bind[v] = 0 \/ \A i \in DOMAIN queue : queue[i].id # bind[v]

\* the task that produces v has returned its result (bind[v] = 0: v was
\* computed before the cell started)
ResultAvailable(v) == bind[v] = 0 \/ bind[v] \in done

\* a faulty test: only the most recently issued computation is looked at
LastCompleted == issued = 0 \/ issued \in done

\* every computation issued so far has completed
AllCompleted == \A i \in 1..issued : i \in done

\* a synchronous front-end: every ndarray operation waits for the back-end
FrontendWaitsSynchronous(s) ==
    CASE s.kind \in ArraySyncKinds -> bind[s.out] # 0 /\ bind[s.out] \notin done
      [] s.kind \in {"waitall", "op"} -> \E i \in 1..issued : i \notin done
      [] OTHER -> FALSE

\* the front-end waits for the back-end only in a synchronization function
FrontendWaits(s) ==
    CASE s.kind \in ArraySyncKinds -> ~ResultAvailable(s.out)
      [] s.kind = "waitall" -> ~AllCompleted
      [] OTHER -> FALSE

\* a faulty lookup: the operands are looked up after the output name is rebound,
\* so a task that updates its own operand waits for itself
DepsAfterBind(s) ==
    {IF a = s.out THEN issued + 1 ELSE bind[a] : a \in s.args} \ {0}

\* the tasks that produce the operands of statement s, as bound when s is issued
Deps(s) == {bind[a] : a \in s.args} \ {0}

\* a back-end that starts a task whenever a thread is free
OperandsReadyAlways(t) == TRUE

\* a task runs only after the tasks that produce its operands
OperandsReady(t) == t.deps \subseteq done

(***************************************************************************)
(* The values of ndarrays.                                                 *)
(***************************************************************************)
\* the result of a task that has not returned
Unset == << >>

\* the positions of an ndarray of shape (1, 2)
Shape == 1..2

\* the ndarrays that exist before a cell is run have one of these values
Inputs == {<< 0, 0 >>, << 1, 2 >>}

\* what the memory of a result holds before the result is written
Garbage == {<< 0, 0 >>, << 9, 9 >>}

RECURSIVE SumAt(_, _, _)
\* the sum of position i of the ndarrays vals[a], a in S
SumAt(S, vals, i) ==
    IF S = {} THEN 0
    ELSE LET a == CHOOSE b \in S : TRUE
         IN  vals[a][i] + SumAt(S \ {a}, vals, i)

RECURSIVE ProdAt(_, _, _)
\* the product of position i of the ndarrays vals[a], a in S
ProdAt(S, vals, i) ==
    IF S = {} THEN 1
    ELSE LET a == CHOOSE b \in S : TRUE
         IN  vals[a][i] * ProdAt(S \ {a}, vals, i)

\* the ndarray function fn computes from the operands vals
Apply(fn, vals) ==
    CASE fn = "ones" -> [i \in Shape |-> 1]
      [] fn = "mul_plus2" -> [i \in Shape |-> ProdAt(DOMAIN vals, vals, i) + 2]
      [] fn = "f" -> [i \in Shape |-> SumAt(DOMAIN vals, vals, i) + 1]

\* the tasks that produce the operands of statement s, by operand
Operands(s) == [a \in s.args |-> bind[a]]

\* what a thread that starts task t can read as t's operands: the result of
\* the producing task, or whatever the memory holds if that task has not
\* returned
OperandReads(t) ==
    LET S == [a \in DOMAIN t.ops |->
                 IF value[t.ops[a]] = Unset THEN Garbage
                                            ELSE {value[t.ops[a]]}]
    IN  {f \in [DOMAIN t.ops -> UNION {S[a] : a \in DOMAIN t.ops}] :
            \A a \in DOMAIN t.ops : f[a] \in S[a]}

AInit ==
    /\ cell \in CellNames
    /\ pc = 1
    /\ queue = << >>
    /\ running = {}
    /\ done = {}
    /\ bind = [v \in Names |-> 0]
    /\ issued = 0
    /\ \E v \in Inputs : value = [i \in {0} |-> v]
    /\ read = Unset
    /\ acell = "none"
    /\ apc = 1
    /\ env = << >>
    /\ recording = FALSE
    /\ training = FALSE
    /\ printed = << >>
    /\ PIdle

\* the front-end executes an ndarray operation: the task goes to the queue
Issue ==
    /\ Stmt.kind = "op"
    /\ ~FrontendWaits(Stmt)
    /\ queue' = Append(queue, [id |-> issued + 1, out |-> Stmt.out,
                               deps |-> Deps(Stmt), iter |-> IterOf(cell, pc),
                               fn |-> Stmt.fn, ops |-> Operands(Stmt),
                               res |-> Unset])
    /\ bind' = [bind EXCEPT ![Stmt.out] = issued + 1]
    /\ issued' = issued + 1
    /\ value' = [i \in 0..(issued + 1) |->
                    IF i <= issued THEN value[i] ELSE Unset]
    /\ pc' = pc + 1
    /\ UNCHANGED <<cell, running, done, read>>
    /\ UNCHANGED <<gvars, pvars>>

\* the front-end executes a statement that involves no ndarray
PyStatement ==
    /\ Stmt.kind = "py"
    /\ ~FrontendWaits(Stmt)
    /\ pc' = pc + 1
    /\ UNCHANGED <<cell, queue, running, done, bind, issued, value, read>>
    /\ UNCHANGED <<gvars, pvars>>

\* y.wait_to_read()
WaitToRead ==
    /\ Stmt.kind = "wait_to_read"
    /\ ~FrontendWaits(Stmt)
    /\ read' = value[bind[Stmt.out]]
    /\ pc' = pc + 1
    /\ UNCHANGED <<cell, queue, running, done, bind, issued, value>>
    /\ UNCHANGED <<gvars, pvars>>

\* y.asnumpy()
AsNumpy ==
    /\ Stmt.kind = "asnumpy"
    /\ ~FrontendWaits(Stmt)
    /\ read' = value[bind[Stmt.out]]
    /\ pc' = pc + 1
    /\ UNCHANGED <<cell, queue, running, done, bind, issued, value>>
    /\ UNCHANGED <<gvars, pvars>>

\* y.item()
Item ==
    /\ Stmt.kind = "item"
    /\ ~FrontendWaits(Stmt)
    /\ read' = value[bind[Stmt.out]]
    /\ pc' = pc + 1
    /\ UNCHANGED <<cell, queue, running, done, bind, issued, value>>
    /\ UNCHANGED <<gvars, pvars>>

\* print(y) of an ndarray y
PrintNdarray ==
    /\ Stmt.kind = "print"
    /\ ~FrontendWaits(Stmt)
    /\ read' = value[bind[Stmt.out]]
    /\ pc' = pc + 1
    /\ UNCHANGED <<cell, queue, running, done, bind, issued, value>>
    /\ UNCHANGED <<gvars, pvars>>

\* npx.waitall()
WaitAll ==
    /\ Stmt.kind = "waitall"
    /\ ~FrontendWaits(Stmt)
    /\ pc' = pc + 1
    /\ UNCHANGED <<cell, queue, running, done, bind, issued, value, read>>
    /\ UNCHANGED <<gvars, pvars>>

Frontend ==
    \/ Issue
    \/ PyStatement
    \/ WaitToRead
    \/ AsNumpy
    \/ Item
    \/ PrintNdarray
    \/ WaitAll

\* a back-end thread receives the next task from the queue and starts it
BackendCollect ==
    /\ queue # << >>
    /\ Cardinality(running) < NumThreads
    /\ OperandsReady(Head(queue))
    /\ \E vals \in OperandReads(Head(queue)) :
           running' = running \cup
               {[Head(queue) EXCEPT !.res = Apply(Head(queue).fn, vals)]}
    /\ queue' = Tail(queue)
    /\ UNCHANGED <<cell, pc, done, bind, issued, value, read>>
    /\ UNCHANGED <<gvars, pvars>>

\* a back-end thread finishes its task and returns the result
BackendReturn ==
    \E t \in running :
        /\ running' = running \ {t}
        /\ done' = done \cup {t.id}
        /\ value' = [value EXCEPT ![t.id] = t.res]
        /\ UNCHANGED <<cell, pc, queue, bind, issued, read>>
        /\ UNCHANGED <<gvars, pvars>>

Backend ==
    \/ BackendCollect
    \/ BackendReturn

ANext ==
    \/ Frontend
    \/ Backend

SpecAsync == AInit /\ [][ANext]_vars

\* the threads of both sides keep running while they have something to do
FairSpecAsync ==
    /\ AInit
    /\ [][ANext]_vars
    /\ WF_vars(Frontend)
    /\ WF_vars(BackendCollect)
    /\ WF_vars(BackendReturn)

(***************************************************************************)
(* Automatic differentiation: ndarrays with recorded history, attach_grad, *)
(* autograd.record, backward, detach.  The notebook's cells are run one    *)
(* after another, in any order, on the same x.                             *)
(***************************************************************************)
\* length of the vector x (4 in the notebook)
VecLen == 2
\* the entries of x range over -MaxAbs..MaxAbs
MaxAbs == 1

ANames == {"x", "y", "u", "v", "z", "t"}

Vectors == [1..VecLen -> (-MaxAbs)..MaxAbs]

\* no gradient buffer attached
NoGrad == << >>

Ones(n) == [i \in 1..n |-> 1]

Zeros(n) == [i \in 1..n |-> 0]

VAdd(a, b) == [i \in 1..Len(a) |-> a[i] + b[i]]

VMul(a, b) == [i \in 1..Len(a) |-> a[i] * b[i]]

VScale(c, a) == [i \in 1..Len(a) |-> c * a[i]]

RECURSIVE SumSeq(_)
SumSeq(s) == IF s = << >> THEN 0 ELSE Head(s) + SumSeq(Tail(s))

\* history of a value that was not recorded: a constant in any backward call
ConstHist == [k |-> "const", n |-> "", c |-> 0, in |-> << >>]

\* history of a variable with an attached gradient
Leaf(n) == [k |-> "leaf", n |-> n, c |-> 0, in |-> << >>]

\* history of the result of a recorded operation
Node(k, c, ins) == [k |-> k, n |-> "", c |-> c, in |-> ins]

\* a name no ndarray is bound to
Unbound == [val |-> << >>, hist |-> ConstHist, grad |-> NoGrad]

\* an operand as the computational graph keeps it
Operand(a) == [val |-> a.val, hist |-> a.hist]

\* the result of an operation: its path is kept only inside a record scope
Result(val, k, c, ins) ==
    [val |-> val,
     hist |-> IF recording THEN Node(k, c, ins) ELSE ConstHist,
     grad |-> NoGrad]

\* a faulty attach_grad: the variable keeps the path it was computed by
AttachedKeepingHistory(n, a) ==
    [val |-> a.val,
     hist |-> IF a.hist.k = "const" THEN Leaf(n) ELSE a.hist,
     grad |-> Zeros(Len(a.val))]

\* a.attach_grad() for the ndarray named n: a zero gradient buffer of a's
\* shape; a becomes a variable, detached from what computed it
Attached(n, a) ==
    [val |-> a.val, hist |-> Leaf(n), grad |-> Zeros(Len(a.val))]

\* a faulty detach: same value, history kept
DetachedKeepingHistory(a) == [val |-> a.val, hist |-> a.hist, grad |-> NoGrad]

\* a.detach(): same value, no information about how a was computed
Detached(a) == [val |-> a.val, hist |-> ConstHist, grad |-> NoGrad]

\* a faulty head gradient: only the first element of a vector is differentiated
HeadGradFirstOnly(val) == [i \in 1..Len(val) |-> IF i = 1 THEN 1 ELSE 0]

\* backward on y differentiates the sum of the elements of y
HeadGrad(val) == Ones(Len(val))

\* a faulty merge: the second contribution to the same variable is dropped
GAddKeepFirst(g1, g2) ==
    [m \in ANames |-> IF g1[m] = NoGrad THEN g2[m] ELSE g1[m]]

\* gradients reaching the same variable along two paths add up
GAdd(g1, g2) ==
    [m \in ANames |->
        IF g1[m] = NoGrad THEN g2[m]
        ELSE IF g2[m] = NoGrad THEN g1[m]
        ELSE VAdd(g1[m], g2[m])]

\* a faulty store: the new gradient is added to the buffer's contents
GradAccumulate(old, new) == VAdd(old, new)

\* backward stores the gradient: the buffer's contents are overwritten
GradWrite(old, new) == new

\* trace the recorded graph back from a with the gradient g of a: the
\* gradient that reaches each variable (NoGrad: the variable is not reached)
RECURSIVE Backprop(_, _)
Backprop(a, g) ==
    LET h == a.hist
    IN  CASE h.k = "leaf" -> [m \in ANames |-> IF m = h.n THEN g ELSE NoGrad]
          [] h.k = "const" -> [m \in ANames |-> NoGrad]
          [] h.k = "mul" ->
               GAdd(Backprop(h.in[1], VMul(g, h.in[2].val)),
                    Backprop(h.in[2], VMul(g, h.in[1].val)))
          [] h.k = "dot" ->
               GAdd(Backprop(h.in[1], VScale(g[1], h.in[2].val)),
                    Backprop(h.in[2], VScale(g[1], h.in[1].val)))
          [] h.k = "scale" -> Backprop(h.in[1], VScale(h.c, g))
          [] h.k = "sum" -> Backprop(h.in[1], VScale(g[1], Ones(Len(h.in[1].val))))
          [] h.k = "sub" ->
               GAdd(Backprop(h.in[1], g), Backprop(h.in[2], VScale(-1, g)))

\* the environment after y.backward()
AfterBackward(y) ==
    LET G == Backprop(Operand(env[y]), HeadGrad(env[y].val))
    IN  [m \in ANames |->
            IF G[m] # NoGrad /\ env[m].grad # NoGrad
            THEN [env[m] EXCEPT !.grad = GradWrite(env[m].grad, G[m])]
            ELSE env[m]]

\* statements of the autograd cells
St(op, out, a, b, c) == [op |-> op, out |-> out, a |-> a, b |-> b, c |-> c]

Enter == St("record_enter", "", "", "", 0)

Exit == St("record_exit", "", "", "", 0)

AEnd == St("end", "", "", "", 0)

ACellNames ==
    {"simple", "sum", "nonscalar", "detach", "attach_in_record", "modes"}

Script(c) ==
    CASE c = "setup" ->
           << St("attach_grad", "x", "", "", 0) >>
      [] c = "simple" ->
           << Enter,
              St("dot", "t", "x", "x", 0), St("scale", "y", "t", "", 2),
              Exit,
              St("backward", "", "y", "", 0) >>
      [] c = "sum" ->
           << Enter, St("sum", "y", "x", "", 0), Exit,
              St("backward", "", "y", "", 0) >>
      [] c = "nonscalar" ->
           << Enter, St("mul", "y", "x", "x", 0), Exit,
              St("backward", "", "y", "", 0),
              St("copy", "u", "x", "", 0),
              St("attach_grad", "u", "", "", 0),
              Enter,
              St("mul", "t", "u", "u", 0), St("sum", "v", "t", "", 0),
              Exit,
              St("backward", "", "v", "", 0) >>
      [] c = "detach" ->
           << Enter,
              St("mul", "y", "x", "x", 0),
              St("detach", "u", "y", "", 0),
              St("mul", "z", "u", "x", 0),
              Exit,
              St("backward", "", "z", "", 0),
              St("backward", "", "y", "", 0) >>
      [] c = "attach_in_record" ->
           << St("twos", "y", "", "", 2),
              St("attach_grad", "y", "", "", 0),
              Enter,
              St("mul", "u", "x", "y", 0),
              St("attach_grad", "u", "", "", 0),
              St("scale", "t", "u", "", 5), St("sub", "z", "t", "x", 0),
              Exit,
              St("backward", "", "z", "", 0) >>
      [] c = "modes" ->
           << St("is_training", "", "", "", 0),
              Enter,
              St("is_training", "", "", "", 0),
              Exit >>

\* the statement the autograd session is at
AStmt == IF apc \in DOMAIN Script(acell) THEN Script(acell)[apc] ELSE AEnd

\* x = np.arange(4), here any vector of the bounded set
GInit ==
    /\ acell = "setup"
    /\ apc = 1
    /\ \E xv \in Vectors :
           env = [m \in ANames |->
                     IF m = "x"
                     THEN [val |-> xv, hist |-> ConstHist, grad |-> NoGrad]
                     ELSE Unbound]
    /\ recording = FALSE
    /\ training = FALSE
    /\ printed = << >>
    /\ cell = "none"
    /\ pc = 1
    /\ queue = << >>
    /\ running = {}
    /\ done = {}
    /\ bind = [v \in Names |-> 0]
    /\ issued = 0
    /\ value = << >>
    /\ read = << >>
    /\ PIdle

\* the statement assigns val to its name and the session moves on
Assign(val) ==
    /\ env' = [env EXCEPT ![AStmt.out] = val]
    /\ apc' = apc + 1
    /\ UNCHANGED <<acell, recording, training, printed>>
    /\ UNCHANGED <<avars, pvars>>

\* x.attach_grad()
AttachGrad ==
    /\ AStmt.op = "attach_grad"
    /\ Assign(Attached(AStmt.out, env[AStmt.out]))

\* a record scope that leaves the running mode as it was
RecordKeepsMode(m) == m

\* the running mode inside a record scope entered in mode m: autograd.record
\* changes the running mode to training mode
RecordMode(m) == TRUE

\* with autograd.record():
RecordEnter ==
    /\ AStmt.op = "record_enter"
    /\ recording' = TRUE
    /\ training' = RecordMode(training)
    /\ apc' = apc + 1
    /\ UNCHANGED <<acell, env, printed>>
    /\ UNCHANGED <<avars, pvars>>

\* the end of the record scope
RecordExit ==
    /\ AStmt.op = "record_exit"
    /\ recording' = FALSE
    /\ training' = FALSE
    /\ apc' = apc + 1
    /\ UNCHANGED <<acell, env, printed>>
    /\ UNCHANGED <<avars, pvars>>

\* print(autograd.is_training())
IsTraining ==
    /\ AStmt.op = "is_training"
    /\ printed' = Append(printed, training)
    /\ apc' = apc + 1
    /\ UNCHANGED <<acell, env, recording, training>>
    /\ UNCHANGED <<avars, pvars>>

\* out = a * b, elementwise
Multiply ==
    /\ AStmt.op = "mul"
    /\ Assign(Result(VMul(env[AStmt.a].val, env[AStmt.b].val), "mul", 0,
                     << Operand(env[AStmt.a]), Operand(env[AStmt.b]) >>))

\* out = np.dot(a, b)
DotProduct ==
    /\ AStmt.op = "dot"
    /\ Assign(Result(<< SumSeq(VMul(env[AStmt.a].val, env[AStmt.b].val)) >>,
                     "dot", 0,
                     << Operand(env[AStmt.a]), Operand(env[AStmt.b]) >>))

\* out = c * a
ScalarMultiply ==
    /\ AStmt.op = "scale"
    /\ Assign(Result(VScale(AStmt.c, env[AStmt.a].val), "scale", AStmt.c,
                     << Operand(env[AStmt.a]) >>))

\* out = a.sum()
SumElements ==
    /\ AStmt.op = "sum"
    /\ Assign(Result(<< SumSeq(env[AStmt.a].val) >>, "sum", 0,
                     << Operand(env[AStmt.a]) >>))

\* out = a - b
Subtract ==
    /\ AStmt.op = "sub"
    /\ Assign(Result(VAdd(env[AStmt.a].val, VScale(-1, env[AStmt.b].val)),
                     "sub", 0,
                     << Operand(env[AStmt.a]), Operand(env[AStmt.b]) >>))

\* out = a.detach()
Detach ==
    /\ AStmt.op = "detach"
    /\ Assign(Detached(env[AStmt.a]))

\* out = a.copy(), outside any record scope
CopyArray ==
    /\ AStmt.op = "copy"
    /\ ~recording
    /\ Assign([val |-> env[AStmt.a].val, hist |-> ConstHist, grad |-> NoGrad])

\* out = np.ones(4) * 2, outside any record scope
CreateConstant ==
    /\ AStmt.op = "twos"
    /\ ~recording
    /\ Assign([val |-> VScale(AStmt.c, Ones(VecLen)), hist |-> ConstHist,
               grad |-> NoGrad])

\* a.backward()
Backward ==
    /\ AStmt.op = "backward"
    /\ env' = AfterBackward(AStmt.a)
    /\ apc' = apc + 1
    /\ UNCHANGED <<acell, recording, training, printed>>
    /\ UNCHANGED <<avars, pvars>>

\* the cell has run to its end and another cell is run
RunCell ==
    /\ AStmt.op = "end"
    /\ acell' \in ACellNames
    /\ apc' = 1
    /\ printed' = << >>
    /\ UNCHANGED <<env, recording, training>>
    /\ UNCHANGED <<avars, pvars>>

GNext ==
    \/ AttachGrad
    \/ RecordEnter
    \/ RecordExit
    \/ IsTraining
    \/ Multiply
    \/ DotProduct
    \/ ScalarMultiply
    \/ SumElements
    \/ Subtract
    \/ Detach
    \/ CopyArray
    \/ CreateConstant
    \/ Backward
    \/ RunCell

SpecAutograd == GInit /\ [][GNext]_vars

(***************************************************************************)
(* Parameters of a network: construction, deferred initialization, direct  *)
(* writes, backpropagation and trainer steps.                              *)
(***************************************************************************)
\* number of entries of a weight
PLen == 2
\* statements that change a weight by arithmetic (+= 1, trainer.step)
MaxSteps == 2

\* the value an initializer fills a weight with (the default draws are
\* random, init.Constant(1) gives ones)
InitValues == {0, 1}
InitVectors == {[i \in 1..PLen |-> c] : c \in InitValues}

\* the gradients a layer can contribute in backpropagation
PVectors == [1..PLen -> {0, 1}]

\* values the notebooks assign to an entry of a weight
WrittenValues == {42, 100}

\* the networks: the two-layer perceptron and the network with tied layers
\* of "Parameter Management", and FancyMLP
PNets == {"mlp", "tied", "fancy"}

\* the places of a network's forward computation that use a parameter
Uses(n) ==
    CASE n = "mlp" -> {"net[0]", "net[1]"}
      [] n = "tied" -> {"net[0]", "net[1]", "net[2]", "net[3]"}
      [] n = "fancy" -> {"dense(1)", "rand_weight", "dense(2)"}

\* every layer has parameters of its own
OwnParams(n, u) ==
    IF n = "fancy" /\ u \in {"dense(1)", "dense(2)"} THEN "dense" ELSE u

\* the parameter a place uses: the third layer of the tied network is built
\* with params=shared.params, and FancyMLP calls self.dense twice
ParamsOf(n, u) ==
    CASE n = "tied" /\ u = "net[2]" -> "net[1]"
      [] n = "fancy" /\ u \in {"dense(1)", "dense(2)"} -> "dense"
      [] OTHER -> u

\* the layers whose weight the notebook writes through data()
Writable(n) ==
    CASE n = "mlp" -> {"net[0]"}
      [] n = "tied" -> {"net[1]", "net[2]"}
      [] n = "fancy" -> {}

\* a parameter whose gradient buffer is left as allocated
ParameterGradUnset(d) == [data |-> d, grad |-> d, req |-> "write"]

\* a parameter with data d: its gradient has the shape of the data and is
\* all zeros
Parameter(d) == [data |-> d, grad |-> Zeros(Len(d)), req |-> "write"]

\* a parameter created like any other
GetConstantAsParameter(v) == [data |-> v, grad |-> Zeros(Len(v)), req |-> "write"]

\* params.get_constant(name, v): a parameter that is not used when invoking
\* backprop and not iterated during training
GetConstant(v) == [data |-> v, grad |-> NoGrad, req |-> "null"]

\* net[l].weight.data(): the data of the parameter the layer uses
WeightData(u) == pstore[ParamsOf(pnet, u)].data

\* the parameters that take part in training
Trainable == {k \in DOMAIN pstore : pstore[k].req = "write"}

\* the places of the network that use parameter k
UsesOf(k) == {u \in Uses(pnet) : ParamsOf(pnet, u) = k}

\* a network has been constructed: FancyMLP creates its constant with a
\* random value, the other parameters do not exist yet
PInit ==
    /\ pnet \in PNets
    /\ pstage = "built"
    /\ \E v \in InitVectors :
           pstore = IF pnet = "fancy"
                    THEN [k \in {"rand_weight"} |-> GetConstant(v)]
                    ELSE << >>
    /\ pbwd = FALSE
    /\ psteps = 0
    /\ cell = "none"
    /\ pc = 1
    /\ queue = << >>
    /\ running = {}
    /\ done = {}
    /\ bind = [v \in Names |-> 0]
    /\ issued = 0
    /\ value = << >>
    /\ read = << >>
    /\ acell = "none"
    /\ apc = 1
    /\ env = << >>
    /\ recording = FALSE
    /\ training = FALSE
    /\ printed = << >>

\* net.initialize(): the shapes are unknown, initialization is deferred
Initialize ==
    /\ pstage = "built"
    /\ pstage' = "initialized"
    /\ UNCHANGED <<pnet, pstore, pbwd, psteps>>
    /\ UNCHANGED <<avars, gvars>>

\* net(x): the first forward computation creates the parameters that do not
\* exist yet, each with values drawn by the initializer
Forward ==
    /\ pstage = "initialized"
    /\ pstage' = "ready"
    /\ LET all == {ParamsOf(pnet, u) : u \in Uses(pnet)}
           new == all \ DOMAIN pstore
       IN  \E init \in [new -> InitVectors] :
               pstore' = [k \in all |->
                             IF k \in new THEN Parameter(init[k])
                                          ELSE pstore[k]]
    /\ UNCHANGED <<pnet, pbwd, psteps>>
    /\ UNCHANGED <<avars, gvars>>

\* net[l].weight.data()[0, 0] = v
WriteIndex ==
    /\ pstage = "ready"
    /\ \E u \in Writable(pnet), v \in WrittenValues :
           pstore' = [pstore EXCEPT ![ParamsOf(pnet, u)].data[1] = v]
    /\ UNCHANGED <<pnet, pstage, pbwd, psteps>>
    /\ UNCHANGED <<avars, gvars>>

\* net[l].weight.data()[:] += 1
AddOne ==
    /\ pstage = "ready"
    /\ psteps < MaxSteps
    /\ \E u \in Writable(pnet) :
           pstore' = [pstore EXCEPT ![ParamsOf(pnet, u)].data =
                                        VAdd(@, Ones(Len(@)))]
    /\ psteps' = psteps + 1
    /\ UNCHANGED <<pnet, pstage, pbwd>>
    /\ UNCHANGED <<avars, gvars>>

\* l.backward(): every place a trainable parameter is used at contributes
\* the gradient g to the parameter's buffer; the contributions of the places
\* that share a parameter are accumulated
PBackward ==
    /\ pstage = "ready"
    /\ \E g \in PVectors :
           pstore' = [k \in DOMAIN pstore |->
                         IF k \in Trainable
                         THEN [pstore[k] EXCEPT
                                  !.grad = VScale(Cardinality(UsesOf(k)), g)]
                         ELSE pstore[k]]
    /\ pbwd' = TRUE
    /\ UNCHANGED <<pnet, pstage, psteps>>
    /\ UNCHANGED <<avars, gvars>>

\* trainer.step(): sgd moves every trainable parameter against its gradient
TrainerStep ==
    /\ pstage = "ready"
    /\ pbwd
    /\ psteps < MaxSteps
    /\ pstore' = [k \in DOMAIN pstore |->
                     IF k \in Trainable
                     THEN [pstore[k] EXCEPT
                              !.data = VAdd(@, VScale(-1, pstore[k].grad))]
                     ELSE pstore[k]]
    /\ psteps' = psteps + 1
    /\ UNCHANGED <<pnet, pstage, pbwd>>
    /\ UNCHANGED <<avars, gvars>>

PNext ==
    \/ Initialize
    \/ Forward
    \/ WriteIndex
    \/ AddOne
    \/ PBackward
    \/ TrainerStep

SpecParams == PInit /\ [][PNext]_vars

\* a notebook session is either an autograd session or a session with a
\* network
SessionInit == GInit \/ PInit

SessionNext ==
    \/ (acell # "none" /\ GNext)
    \/ (pnet # "none" /\ PNext)

SpecSession == SessionInit /\ [][SessionNext]_vars

(***************************************************************************)
(* Properties of asynchronous execution.                                   *)
(***************************************************************************)
\* statements of the current cell the front-end has already executed
Passed == 1..(pc - 1)

\* number of ndarray operations among the first j - 1 statements of cell c
OpsBefore(c, j) == Cardinality({i \in 1..(j - 1) : Program(c)[i].kind = "op"})

\* C1: executing an ndarray operation only appends one task to the back-end
\* queue and moves on (nothing is executed or completed by that step), and
\* at a statement that is no synchronization function the front-end can
\* always take its step, whatever is still pending in the back-end.
C1_AsyncDispatch ==
    /\ [][(Stmt.kind = "op" /\ pc' # pc) =>
            /\ pc' = pc + 1
            /\ Len(queue') = Len(queue) + 1
            /\ SubSeq(queue', 1, Len(queue)) = queue
            /\ queue'[Len(queue')].id \notin done'
            /\ running' = running
            /\ done' = done]_vars
    /\ [](Stmt.kind \in {"op", "py"} => ENABLED Frontend)

\* C1 witness: the newest task was issued while an earlier one was unexecuted,
\* and the front-end is already at a further operation.
C1_Witness ==
    /\ Stmt.kind = "op"
    /\ issued \in PendingIds
    /\ \E i \in PendingIds : i < issued

\* C2: once the front-end is past wait_to_read, asnumpy, item or print of an
\* ndarray (and has not reassigned its name since), the task that produces
\* that ndarray has completed.
C2_SyncReturnsAfterResult ==
    \A j \in Passed :
        LET s == Program(cell)[j]
        IN  (/\ s.kind \in ArraySyncKinds
             /\ \A k \in (j + 1)..(pc - 1) :
                    ~(Program(cell)[k].kind = "op" /\ Program(cell)[k].out = s.out))
            => (bind[s.out] = 0 \/ bind[s.out] \in done)

\* C2 witness: the statement after item(s) is about to run, s was computed
\* by a back-end task, and that task is done.
C2_Witness ==
    /\ pc > 1
    /\ Program(cell)[pc - 1].kind = "item"
    /\ bind[Program(cell)[pc - 1].out] \in done
    /\ Stmt.kind = "py"

\* C3: once the front-end is past npx.waitall(), every computation issued
\* before that call has completed.
C3_WaitAllCompletesAll ==
    \A j \in Passed :
        Program(cell)[j].kind = "waitall"
            => \A i \in 1..OpsBefore(cell, j) : i \in done

\* C3 witness: the waitall cell past its waitall, with y and z both computed.
C3_Witness ==
    /\ cell = "waitall"
    /\ pc = 5
    /\ {bind["y"], bind["z"]} = {1, 2}
    /\ {1, 2} \subseteq done

C5_EveryTaskExecuted ==
    /\ (Stmt.kind \in ArraySyncKinds \cup {"waitall"})
           ~> (Stmt.kind \notin ArraySyncKinds \cup {"waitall"})
    /\ <>[](/\ pc = Len(Program(cell)) + 1
            /\ issued = OpsBefore(cell, pc)
            /\ \A i \in 1..issued : i \in done
            /\ Pending = {})

\* C5 witness: the front-end is held in wait_to_read while the task is pending.
C5_Witness ==
    /\ Stmt.kind = "wait_to_read"
    /\ bind[Stmt.out] \in PendingIds

(***************************************************************************)
(* Properties of automatic differentiation.                                *)
(***************************************************************************)
\* the cell c has run to its end
AtEnd(c) == acell = c /\ apc = Len(Script(c)) + 1

\* C6: when y = x.sum() has been recorded and y.backward() has run, x.grad is
\* all ones, whatever an earlier backward call had left in x.grad: the buffer
\* is overwritten, the new gradient is not added to the old one.
C6_BackwardOverwritesGrad ==
    AtEnd("sum") => env["x"].grad = Ones(VecLen)

\* C6 witness: the sum cell has run after the non-scalar cell (v is bound),
\* whose backward had filled x.grad with 2 * x, and x.grad is all ones.
C6_Witness ==
    /\ AtEnd("sum")
    /\ env["v"] # Unbound
    /\ env["u"].grad = VScale(2, env["x"].val)
    /\ env["x"].val[1] # 0
    /\ env["x"].grad = Ones(VecLen)

\* C7: after y = 2 * np.dot(x, x) is recorded and y.backward() has run,
\* x.grad equals 4 * x at every position, for every x.
C7_GradOfTwoDotIsFourX ==
    AtEnd("simple") =>
        /\ Len(env["x"].grad) = VecLen
        /\ \A i \in 1..VecLen : env["x"].grad[i] = 4 * env["x"].val[i]

\* C7 witness: the cell has run on an x with different non-zero entries.
C7_Witness ==
    /\ AtEnd("simple")
    /\ env["x"].val[1] # 0
    /\ env["x"].val[2] # env["x"].val[1]
    /\ env["y"].val = << 2 * SumSeq(VMul(env["x"].val, env["x"].val)) >>
    /\ env["x"].grad = VScale(4, env["x"].val)

\* C8: after y = x * x, y.backward() and, on a copy u of x with its own
\* gradient, v = (u * u).sum(), v.backward(): x.grad equals u.grad at every
\* position.
C8_VectorBackwardIsGradOfSum ==
    AtEnd("nonscalar") =>
        /\ Len(env["x"].grad) = VecLen
        /\ Len(env["u"].grad) = VecLen
        /\ \A i \in 1..VecLen : env["x"].grad[i] = env["u"].grad[i]

\* C8 witness: the cell has run on an x whose entries are all non-zero, y is
\* the vector x * x and both gradients are 2 * x.
C8_Witness ==
    /\ AtEnd("nonscalar")
    /\ \A i \in 1..VecLen : env["x"].val[i] # 0
    /\ env["y"].val = VMul(env["x"].val, env["x"].val)
    /\ env["u"].grad = VScale(2, env["x"].val)

\* C9: in the detach cell, u = y.detach() has y's value; after z = u * x is
\* recorded and z.backward() has run, x.grad equals u at every position; after
\* the following y.backward(), x.grad equals 2 * x at every position.
C9_DetachStopsGradient ==
    /\ (acell = "detach" /\ apc >= 4) => env["u"].val = env["y"].val
    /\ (acell = "detach" /\ apc = 7) =>
           /\ Len(env["x"].grad) = VecLen
           /\ \A i \in 1..VecLen : env["x"].grad[i] = env["u"].val[i]
    /\ AtEnd("detach") =>
           /\ Len(env["x"].grad) = VecLen
           /\ \A i \in 1..VecLen : env["x"].grad[i] = 2 * env["x"].val[i]

\* C9 witness: z.backward() has run on an x with a non-zero entry (so that
\* u = x * x differs from 3 * x * x, the gradient of x * x * x).
C9_Witness ==
    /\ acell = "detach"
    /\ apc = 7
    /\ env["x"].val[1] # 0
    /\ env["z"].val = VMul(env["u"].val, env["x"].val)
    /\ env["x"].grad = VMul(env["x"].val, env["x"].val)

\* C10: after y = np.ones * 2 with a gradient attached, and in a record
\* scope u = x * y, u.attach_grad(), z = 5 * u - x, the call z.backward()
\* leaves x.grad = -1, u.grad = 5 and y.grad = 0 in every component.
C10_AttachGradDetaches ==
    AtEnd("attach_in_record") =>
        /\ env["x"].grad = VScale(-1, Ones(VecLen))
        /\ env["u"].grad = VScale(5, Ones(VecLen))
        /\ env["y"].grad = Zeros(VecLen)

\* C10 witness: the cell has run on an x with a non-zero entry, so that the
\* gradient 5 * x of z with respect to y through u = x * y would be non-zero.
C10_Witness ==
    /\ AtEnd("attach_in_record")
    /\ env["x"].val[1] # 0
    /\ env["u"].val = VScale(2, env["x"].val)
    /\ env["z"].val = VScale(9, env["x"].val)
    /\ env["y"].grad = Zeros(VecLen)

(***************************************************************************)
(* Properties of gradient buffers, modes and parameters.                   *)
(***************************************************************************)
\* C11: before any backward call a gradient buffer is all zeros and has the
\* shape of its variable: right after a statement x.attach_grad() the
\* gradient of x is a vector of zeros as long as x, and in a network whose
\* parameters exist and on which backpropagation has not been invoked every
\* trainable parameter's gradient is a vector of zeros as long as its data,
\* whatever has been written to the data.
C11_GradIsZerosBeforeBackward ==
    /\ (/\ acell # "none"
        /\ apc - 1 \in DOMAIN Script(acell)
        /\ Script(acell)[apc - 1].op = "attach_grad") =>
           LET a == env[Script(acell)[apc - 1].out]
           IN  /\ Len(a.grad) = Len(a.val)
               /\ \A i \in 1..Len(a.val) : a.grad[i] = 0
    /\ (pstage = "ready" /\ ~pbwd) =>
           \A k \in DOMAIN pstore :
               pstore[k].req = "write" =>
                   /\ Len(pstore[k].grad) = Len(pstore[k].data)
                   /\ \A i \in 1..Len(pstore[k].data) : pstore[k].grad[i] = 0

\* C11 witness: net[0].weight of the perceptron has been written to
\* (+= 1 and [0, 0] = 42), backpropagation has not been invoked, and the
\* gradient is still all zeros.
C11_Witness ==
    /\ pnet = "mlp"
    /\ pstage = "ready"
    /\ ~pbwd
    /\ psteps >= 1
    /\ pstore["net[0]"].data[1] = 42
    /\ pstore["net[0]"].data[PLen] \in {1, 2}
    /\ pstore["net[0]"].grad = Zeros(PLen)

\* the number of statements with operation op among the first j - 1
\* statements of cell c
CountBefore(c, j, op) ==
    Cardinality({i \in 1..(j - 1) : i \in DOMAIN Script(c) /\ Script(c)[i].op = op})

\* C12: autograd.record changes the running mode from prediction mode to
\* training mode: at every point of every cell the running mode
\* is_training() reports is True exactly inside a record scope (more scopes
\* entered than left) and False outside (before one is entered and after it
\* is left), and the cell that prints it outside and inside a scope has
\* printed False, True.
C12_TrainingOnlyInsideRecord ==
    acell # "none" =>
        /\ training = (CountBefore(acell, apc, "record_enter")
                         > CountBefore(acell, apc, "record_exit"))
        /\ (acell = "modes" /\ apc > Len(Script("modes"))) =>
               printed = << FALSE, TRUE >>

\* C12 witness: the cell has printed the mode outside and inside the scope
\* and the scope has been left again.
C12_Witness ==
    /\ acell = "modes"
    /\ apc > Len(Script("modes"))
    /\ printed = << FALSE, TRUE >>
    /\ ~training

C14_ConstantNotTrained ==
    [][pnet = "fancy" =>
          /\ pstore'["rand_weight"].data = pstore["rand_weight"].data
          /\ psteps' = psteps + 1 =>
                 \A i \in 1..PLen :
                     pstore'["dense"].data[i] =
                         pstore["dense"].data[i] - pstore["dense"].grad[i]]_vars

\* C14 witness: after a backward with a gradient that is not zero a trainer
\* step has moved the weight of self.dense below every initial value, and
\* rand_weight holds the ones it was created with.
C14_Witness ==
    /\ pnet = "fancy"
    /\ pstage = "ready"
    /\ pbwd
    /\ psteps >= 1
    /\ pstore["dense"].grad[1] = 2
    /\ pstore["dense"].data[1] < 0
    /\ pstore["rand_weight"].data = Ones(PLen)

(***************************************************************************)
(* Asynchronous execution against executing one statement after another.   *)
(***************************************************************************)
\* the ndarrays after statement s is executed on the ndarrays e
SeqStep(e, s) ==
    IF s.kind = "op"
    THEN [e EXCEPT ![s.out] = Apply(s.fn, [a \in s.args |-> e[a]])]
    ELSE e

RECURSIVE SeqRun(_, _, _, _)
\* the ndarrays after statements j..n of program p are executed one after
\* another on the ndarrays e
SeqRun(p, j, n, e) ==
    IF j > n THEN e ELSE SeqRun(p, j + 1, n, SeqStep(e, p[j]))

\* the ndarrays after the first n statements of cell c are executed one
\* after another, every ndarray that exists before the cell having value v0
Sequential(c, n, v0) == SeqRun(Program(c), 1, n, [m \in Names |-> v0])

\* C15: asynchronous execution does not change results: in every
\* interleaving of front-end and back-end steps, the value the
\* synchronization function the front-end has just executed (wait_to_read,
\* asnumpy, item, print) has read from its ndarray is the value the ndarray
\* has when the statements up to there are executed one after another (for
\* a = ones, b = ones, c = a * b + 2 the printed c is [[3, 3]]).
C15_SameAsSequential ==
    (/\ cell # "none"
     /\ pc > 1
     /\ Program(cell)[pc - 1].kind \in ArraySyncKinds) =>
        /\ read = Sequential(cell, pc - 1, value[0])[Program(cell)[pc - 1].out]
        /\ cell = "abc" => read = << 3, 3 >>

\* C15 witness: c has been printed as [[3, 3]] after the back-end computed
\* a, b and a * b + 2.
C15_Witness ==
    /\ cell = "abc"
    /\ pc > Len(Program("abc"))
    /\ read = << 3, 3 >>
    /\ value[bind["a"]] = << 1, 1 >>
    /\ value[bind["c"]] = << 3, 3 >>
    /\ done = 1..3

====
